---- MODULE Spec2Model ----
(***************************************************************************)
(* Model of pcanflash (src/pcanflash.c): one flashing session of main().   *)
(* The program is sequential; pc is the position inside main().  The bus,  *)
(* the image file and the command line are the environment.  Functions of  *)
(* pcanfunc.c, pcanhw.c and crc16.c are modelled from the design document *)
(* (spec.md); everything else follows pcanflash.c line by line.            *)
(*                                                                         *)
(* An image byte / descriptor field is one "cell" holding a natural        *)
(* number; the block size is scaled down.                                  *)
(***************************************************************************)
EXTENDS Integers, Sequences, FiniteSets, TLC

----------------------------------------------------------------------------
(* Bounds of the model *)

\* longest image, in blocks
MaxBlocks == 3
\* largest entry count stored in a checksum descriptor of a generated image
MaxEntries == 3

----------------------------------------------------------------------------
(* Program constants *)

PCF_MIN_TX_QUEUE == 500

\* pcanflash.h (scaled: cells per flash block)
BLKSZ == 12
EMPTY == 255
MAX_MODULES == 2
NO_MODULE_ID == 255
NO_DATA_LEN == 0
DATA_LEN6 == 6
DATA_LEN8 == 8
\* status value that announces the JSON configuration exchange (line 181)
JSON_TYPE == 250

Min(a, b) == IF a < b THEN a ELSE b
Max(a, b) == IF a > b THEN a ELSE b

Slots == 0 .. (MAX_MODULES - 1)

\* module_id &= MAX_MODULES_MASK, MAX_MODULES being a power of two
MaskModuleId(v) == v % MAX_MODULES

----------------------------------------------------------------------------
(* pcanhw.c: the hardware capability table *)

HwTypes == {1, 2, 3}

HwFlags(hw) ==
    CASE hw = 1 -> {"SWITCH_TO_BOOTLOADER", "END_PROGRAMMING", "RESET_AFTER_FLASH"}
      [] hw = 2 -> {"SWITCH_TO_BOOTLOADER", "END_PROGRAMMING", "DATA_MODE8"}
      [] hw = 3 -> {"FDATA_INVERT"}
      [] OTHER -> {}

has_hw_flags(hw, flag) == flag \in HwFlags(hw)

get_num_flashblocks(hw) ==
    CASE hw = 1 -> 2
      [] hw = 2 -> 3
      [] hw = 3 -> 1
      [] OTHER -> 0

get_crc_startpos(hw) ==
    CASE hw = 1 -> 0
      [] hw = 2 -> 1
      [] hw = 3 -> BLKSZ
      [] OTHER -> 0

get_flash_offset(hw) ==
    CASE hw = 3 -> 100
      [] OTHER -> 0

\* hardware variants whose image must carry a channel section
NeedsChName(hw) == hw = 3

\* 0 when (hw, flash type) is a pairing of the matrix, non-zero otherwise
check_flash_id_type(hw, ft) ==
    IF <<hw, ft>> \in {<<1, 1>>, <<2, 1>>, <<2, 2>>, <<3, 2>>} THEN 0 ELSE 1

----------------------------------------------------------------------------
(* The bus: what each slot answers.  A slot holds no module ("none") or a  *)
(* module of one of these kinds.                                           *)

ModuleKinds == {"hw1", "hw2", "hw1bad", "json8", "json", "jsonbad", "jsonfail"}

\* get_status(): the hardware and flash type bytes data[3], data[4]
StatusReply(kind) ==
    CASE kind = "hw1"    -> <<1, 1>>
      [] kind = "hw2"    -> <<2, 2>>
      [] kind = "hw1bad" -> <<1, 2>>
      [] OTHER           -> <<JSON_TYPE, JSON_TYPE>>

\* get_json_config(): return value, resolved types, reported transfer length
JsonReply(kind) ==
    CASE kind = "json8"   -> [rc |-> 0, hw |-> 3, ft |-> 2, dlc |-> DATA_LEN8]
      [] kind = "json"    -> [rc |-> 0, hw |-> 3, ft |-> 2, dlc |-> NO_DATA_LEN]
      [] kind = "jsonbad" -> [rc |-> 0, hw |-> 3, ft |-> 1, dlc |-> NO_DATA_LEN]
      [] OTHER            -> [rc |-> 1, hw |-> 0, ft |-> 0, dlc |-> NO_DATA_LEN]

----------------------------------------------------------------------------
(* crc16.h / crc16.c: the checksum descriptor and the checksum *)

\* the identification string, with its terminating NUL
CRC_IDENT_STRING == <<80, 0>>

\* crc_array_t: cell offsets of the fields
OFF_STR == 0
OFF_VERSION == 2
OFF_DAY == 3
OFF_MONTH == 4
OFF_YEAR == 5
OFF_MODE == 6
OFF_COUNT == 7
OFF_BLOCK == 8
\* crc_block_t: address, len, crc
ENTRY_CELLS == 3

RECURSIVE Crc16(_, _)
\* the 16 bit checksum of a sequence of cells
Crc16(bytes, crc) ==
    IF bytes = << >> THEN crc
    ELSE Crc16(Tail(bytes), (crc * 31 + Head(bytes) + 1) % 65536)

\* calc_crc16(infile, address, len): repositions the stream to address and
\* reads len bytes from the image on disk.  crc: the checksum of the bytes
\* read; eof: the stream's end-of-file indicator afterwards (cleared by the
\* repositioning, set again by a read at or past the end of the file).
calc_crc16(img, address, len) ==
    LET last == Min(address + len, Len(img))
        bytes == IF address < last THEN SubSeq(img, address + 1, last) ELSE << >>
    IN  [crc |-> Crc16(bytes, 0), eof |-> (len > 0 /\ address + len > Len(img))]

----------------------------------------------------------------------------
(* The image file and its stream (stdio) *)

\* fseek(infile, off, SEEK_SET) on a regular file: 0 for every offset >= 0
fseek(off) == IF off >= 0 THEN 0 ELSE -1

\* memset(&buf, 0xFF, sizeof(buf)); fread(buf, 1, BLKSZ, infile) at offset off:
\* the BLKSZ+2 cells of buf and the stream's end-of-file indicator
fread_block(img, off) ==
    LET n == Min(BLKSZ, Max(0, Len(img) - off))
    IN  [buf |-> [k \in 1 .. (BLKSZ + 2) |-> IF k <= n THEN img[off + k] ELSE EMPTY],
         eof |-> n < BLKSZ]

\* the scan of lines 289-292 leaves i = BLKSZ
IsEmptyBlock(b) == \A k \in 1 .. BLKSZ : b[k] = EMPTY

\* buf[idx] as the program reads it; a read behind the buffer yields junk
BufRead(b, idx, junk) == IF idx < BLKSZ + 2 THEN b[idx + 1] ELSE junk

\* buf[idx] = v; a write behind the buffer does not land in buf
BufWrite(b, idx, v) == IF idx < BLKSZ + 2 THEN [b EXCEPT ![idx + 1] = v] ELSE b

\* !strcmp((const char *)ca->str, CRC_IDENT_STRING)
IdentMatches(b, base, junk) ==
    \A k \in 1 .. Len(CRC_IDENT_STRING) :
        BufRead(b, base + OFF_STR + k - 1, junk) = CRC_IDENT_STRING[k]

\* a variant that also patches a descriptor of mode 2
ModeSupportedOrTwo(m) == m = 1 \/ m = 2 \/ m = 3 \/ m = 4

\* line 306
ModeSupported(m) == m = 1 \/ m = 3 \/ m = 4

RECURSIVE PatchEntries(_, _, _, _, _)
\* lines 307-311: for (i = 0; i < ca->count; i++) ca->block[i].crc = calc_crc16(...)
\* st = [buf, eof, out, oob]
PatchEntries(st, base, img, junk, k) ==
    IF k < BufRead(st.buf, base + OFF_COUNT, junk)
    THEN LET at == base + OFF_BLOCK + ENTRY_CELLS * k
             address == BufRead(st.buf, at, junk)
             len == BufRead(st.buf, at + 1, junk)
             c == calc_crc16(img, address, len)
         IN  PatchEntries([buf |-> BufWrite(st.buf, at + 2, c.crc),
                           eof |-> c.eof,
                           out |-> Append(st.out, <<"crc", k, address, len, c.crc>>),
                           oob |-> st.oob \/ at + 2 >= BLKSZ + 2],
                          base, img, junk, k + 1)
    ELSE st

\* lines 300-315: the checksum descriptor at buf[base]
PatchCrcArray(b, eof, base, where, img, junk) ==
    LET rd(off) == BufRead(b, base + off, junk)
        st0 == [buf |-> b, eof |-> eof, out |-> << >>,
                oob |-> base + OFF_COUNT >= BLKSZ + 2]
    IN  IF IdentMatches(b, base, junk)
        THEN LET found == <<"found", rd(OFF_VERSION), rd(OFF_DAY), rd(OFF_MONTH),
                            rd(OFF_YEAR), rd(OFF_MODE), where>>
                 st1 == [st0 EXCEPT !.out = <<found>>]
             IN  IF ModeSupported(rd(OFF_MODE))
                 THEN PatchEntries(st1, base, img, junk, 0)
                 ELSE [st1 EXCEPT !.out = Append(@, <<"unsupported", rd(OFF_MODE)>>)]
        ELSE [st0 EXCEPT !.out = <<<<"noident">>>>, !.oob = FALSE]

----------------------------------------------------------------------------
(* pcanfunc.c: the commands.  Each yields tx (a frame goes to the bus) and  *)
(* fatal (the function ends the process on a transport failure).           *)

\* a variant that returns to main() after a transport failure
erase_flashblocks_returns(dry, ok) == [tx |-> ~dry, fatal |-> FALSE]

erase_flashblocks(dry, ok) == [tx |-> ~dry, fatal |-> ~dry /\ ~ok]

write_block(dry, ok) == [tx |-> ~dry, fatal |-> ~dry /\ ~ok]

----------------------------------------------------------------------------
(* The images the model flashes *)

\* number of cells missing from a short final block
ShortBy == 1

BlockCells(kind) == [k \in 1 .. BLKSZ |-> IF kind = "E" THEN EMPTY ELSE 17]

RECURSIVE Flatten(_)
Flatten(ss) == IF ss = << >> THEN << >> ELSE Head(ss) \o Flatten(Tail(ss))

\* the blocks of kinds ks ("E" all empty, "D" programmed), the last cut cells short
PlainImage(ks, cut) ==
    LET all == Flatten([k \in 1 .. Len(ks) |-> BlockCells(ks[k])])
    IN  SubSeq(all, 1, Len(all) - cut)

PlainImages ==
    { PlainImage(ks, cut) :
        ks \in UNION { [1 .. n -> {"E", "D"}] : n \in 1 .. MaxBlocks },
        cut \in {0, ShortBy} } \cup {<< >>}

\* sub-ranges {address, len} a descriptor entry may name: inside every
\* non-empty image, and reaching behind the end of every image
RangeInside == <<0, 2>>
RangeBehind == <<1, MaxBlocks * BLKSZ + BLKSZ>>
Ranges == {RangeInside, RangeBehind}

\* the cells of a checksum descriptor
Descriptor(ident, mode, rs) ==
    <<ident, 0, 1, 24, 12, 21, mode, Len(rs)>>
        \o Flatten([k \in 1 .. Len(rs) |-> <<rs[k][1], rs[k][2], 0>>])

\* entry lists: every mix of the ranges up to two entries, longer lists of
\* one range
EntryLists ==
    UNION { [1 .. n -> Ranges] : n \in 0 .. Min(2, MaxEntries) }
    \cup { [k \in 1 .. n |-> RangeInside] : n \in 3 .. MaxEntries }

Descriptors ==
    { Descriptor(80, 1, rs) : rs \in EntryLists }
    \cup { Descriptor(80, m, <<RangeInside>>) : m \in {0, 2, 3, 4} }
    \cup { Descriptor(81, 1, <<RangeInside>>) }

\* img with cells written at offset pos, as far as img reaches
Overlay(img, pos, cells) ==
    [k \in 1 .. Len(img) |->
        IF k > pos /\ k <= pos + Len(cells) THEN cells[k - pos] ELSE img[k]]

Images ==
    PlainImages \cup
    { Overlay(img, pos, d) :
        img \in PlainImages, pos \in {get_crc_startpos(hw) : hw \in HwTypes} \ {0},
        d \in Descriptors }

\* the few images of the sessions that vary the bus and the command line
FewImages ==
    { << >>,
      PlainImage(<<"D", "E", "D">>, 0),
      Overlay(PlainImage(<<"D", "D">>, ShortBy), 1, Descriptor(80, 1, <<RangeInside>>)) }

\* the images of the sessions that are followed to their end: the few
\* above, a single short block, and a descriptor in the short last block
\* with a range inside the image or reaching behind its end
LastBlockImages ==
    FewImages
    \cup { PlainImage(<<"D">>, ShortBy) }
    \cup { Overlay(PlainImage(<<"D", "D">>, ShortBy), BLKSZ, Descriptor(80, 1, <<r>>)) :
             r \in Ranges }

----------------------------------------------------------------------------
(* State *)

VARIABLES
    argv,       \* the command line: [f, i, q, r, d, bad, ifaces]
    bus,        \* slot -> kind of the module answering there, or "none"
    image,      \* the cells of the image file
    chfile,     \* the image carries the channel section check_ch_name looks for
    pc,         \* position in main()
    exitcode,   \* exit status of the process, -1 while it runs
    infile,     \* the image file has been opened
    query, do_reset, dry_run,
    module_id,
    ifr_qlen,   \* tx queue length read by SIOCGIFTXQLEN
    modules,    \* slot -> [can_id, can_dlc, data7]
    entries, i, hw_type,
    foffset, feof, buf,
    alternating_xor_flip, crc_start, floffset,
    log,        \* the commands main() has called, in order
    trace,      \* per visited block: offset, empty or not, checksum patch output
    oob,        \* an access behind buf has happened
    txfail,     \* an erase or write command has failed on the bus
    pass, prev  \* second session on the same inputs: its number, the first one's record

envvars == <<argv, bus, image, chfile>>
optvars == <<infile, query, do_reset, dry_run, module_id>>
flashvars == <<foffset, feof, buf, alternating_xor_flip, crc_start, floffset, trace, oob, txfail>>
pairvars == <<pass, prev>>
vars == <<argv, bus, image, chfile, pc, exitcode, infile, query, do_reset, dry_run,
          module_id, ifr_qlen, modules, entries, i, hw_type, foffset, feof, buf,
          alternating_xor_flip, crc_start, floffset, log, trace, oob, txfail, pass, prev>>

\* one call of a command function by main(): at is the line of the call
Call(cmd, at, arg, data, tx) ==
    [cmd |-> cmd, at |-> at, arg |-> arg, data |-> data, tx |-> tx]

\* exit(code) / return code from main()
Exit(code) == pc' = "exit" /\ exitcode' = code

\* the values option -i may carry (NO_MODULE_ID: option absent)
ModuleIdArgs == Slots \cup {NO_MODULE_ID}

\* values of option -i that name no slot: line 97 stores what strtoul()
\* yields in an int, without a test
WideModuleIdArgs == {MAX_MODULES, -1}

\* numbers typed at the prompt of line 226
ScanfInputs == 0 .. MAX_MODULES

CommandLines ==
    [f : {"none", "ok", "fail"}, i : ModuleIdArgs, q : BOOLEAN, r : BOOLEAN,
     d : BOOLEAN, bad : BOOLEAN, ifaces : {0, 1}]

\* command lines that flash the only module of the bus
FlashCommandLines ==
    [f : {"ok"}, i : {NO_MODULE_ID}, q : {FALSE}, r : {FALSE},
     d : BOOLEAN, bad : {FALSE}, ifaces : {1}]

Buses == [Slots -> ModuleKinds \cup {"none"}]

SingleModuleBuses ==
    { [s \in Slots |-> IF s = 0 THEN k ELSE "none"] : k \in {"hw1", "hw2", "json8"} }

\* main()'s variables before the first statement: statics are zero
InitProgram ==
    /\ pc = "getopt"
    /\ exitcode = -1
    /\ infile = FALSE /\ query = FALSE /\ do_reset = FALSE /\ dry_run = FALSE
    /\ module_id = NO_MODULE_ID
    /\ ifr_qlen = 0
    /\ modules = [s \in Slots |-> [can_id |-> 0, can_dlc |-> 0, data7 |-> 0]]
    /\ entries = 0 /\ i = 0 /\ hw_type = 0
    /\ foffset = 0 /\ feof = FALSE
    /\ buf = [k \in 1 .. (BLKSZ + 2) |-> 0]
    /\ alternating_xor_flip = FALSE /\ crc_start = 0 /\ floffset = 0
    /\ log = << >> /\ trace = << >> /\ oob = FALSE /\ txfail = FALSE
    /\ pass = 1 /\ prev = << >>

Init ==
    /\ argv \in CommandLines
    /\ bus \in Buses
    /\ image \in FewImages
    /\ chfile \in BOOLEAN
    /\ InitProgram

\* flashing sessions with every value of option -i
InitIds ==
    /\ argv \in [f : {"ok"}, i : ModuleIdArgs \cup WideModuleIdArgs, q : {FALSE},
                 r : {FALSE}, d : BOOLEAN, bad : {FALSE}, ifaces : {1}]
    /\ bus \in Buses
    /\ image \in FewImages
    /\ chfile = TRUE
    /\ InitProgram

\* sessions that flash the only module of the bus, followed to their end
InitLast ==
    /\ argv \in FlashCommandLines
    /\ bus \in SingleModuleBuses
    /\ image \in LastBlockImages
    /\ chfile = TRUE
    /\ InitProgram

InitFlash ==
    /\ argv \in FlashCommandLines
    /\ bus \in SingleModuleBuses
    /\ image \in Images
    /\ chfile = TRUE
    /\ InitProgram

----------------------------------------------------------------------------
(* main(): option parsing and transport set-up *)

\* lines 86-118
ParseArgs ==
    /\ pc = "getopt"
    /\ IF argv.f = "fail" \/ argv.bad
       THEN /\ Exit(1)
            /\ UNCHANGED optvars
       ELSE /\ infile' = (argv.f = "ok")
            /\ module_id' = argv.i
            /\ query' = argv.q
            /\ do_reset' = argv.r
            /\ dry_run' = argv.d
            /\ pc' = "usage"
            /\ UNCHANGED exitcode
    /\ UNCHANGED <<envvars, ifr_qlen, modules, entries, i, hw_type, flashvars, log, pairvars>>

\* lines 120-123
CheckUsage ==
    /\ pc = "usage"
    /\ IF argv.ifaces # 1 \/ (infile /\ query) \/ ~(infile \/ query)
       THEN Exit(0)
       ELSE pc' = "socket" /\ UNCHANGED exitcode
    /\ UNCHANGED <<envvars, optvars, ifr_qlen, modules, entries, i, hw_type, flashvars,
                   log, pairvars>>

\* what the kernel answers to socket(), the two ioctl()s and bind()
TransportReplies ==
    [socket : BOOLEAN, txqlen : BOOLEAN, ifindex : BOOLEAN, bind : BOOLEAN,
     qlen : {0, PCF_MIN_TX_QUEUE - 1, PCF_MIN_TX_QUEUE, PCF_MIN_TX_QUEUE + 1}]

\* a variant that lets a queue of PCF_MIN_TX_QUEUE - 1 frames pass
QueueTooSmallByTwo(qlen) == qlen < PCF_MIN_TX_QUEUE - 1

\* line 146
QueueTooSmall(qlen) == qlen < PCF_MIN_TX_QUEUE

\* lines 125-163
OpenTransport ==
    /\ pc = "socket"
    /\ \E r \in TransportReplies :
        /\ ifr_qlen' = IF r.socket /\ r.txqlen THEN r.qlen ELSE ifr_qlen
        /\ IF ~r.socket \/ ~r.txqlen \/ QueueTooSmall(r.qlen)
              \/ ~r.ifindex \/ ~r.bind
           THEN Exit(1)
           ELSE pc' = "query_modules" /\ UNCHANGED exitcode
    /\ UNCHANGED <<envvars, optvars, modules, entries, i, hw_type, flashvars, log, pairvars>>

----------------------------------------------------------------------------
(* main(): discovery *)

\* lines 165-169, with query_modules() of pcanfunc.c
QueryModules ==
    /\ pc = "query_modules"
    /\ entries' = Cardinality({s \in Slots : bus[s] # "none"})
    /\ modules' = [s \in Slots |->
                      [can_id |-> IF bus[s] # "none" THEN s + 1 ELSE 0,
                       can_dlc |-> NO_DATA_LEN, data7 |-> 0]]
    /\ log' = Append(log, Call("query_modules", 165, << >>, << >>, TRUE))
    /\ IF entries' = 0
       THEN Exit(1) /\ UNCHANGED i
       ELSE pc' = "list" /\ i' = 0 /\ UNCHANGED exitcode
    /\ UNCHANGED <<envvars, optvars, ifr_qlen, hw_type, flashvars, pairvars>>

\* a variant that accepts every pairing
FlashIdNeverMismatches(hw, ft) == FALSE

\* line 200
FlashIdMismatch(hw, ft) == check_flash_id_type(hw, ft) # 0

\* lines 173-208: one round of the loop over the slots
ListModule ==
    /\ pc = "list"
    /\ i < MAX_MODULES
    /\ IF modules[i].can_id # 0
       THEN LET st == StatusReply(bus[i])
                viaJson == st[1] = JSON_TYPE \/ st[2] = JSON_TYPE
                js == JsonReply(bus[i])
                cf == IF viaJson THEN <<js.hw, js.ft>> ELSE st
                calls == <<Call("get_status", 178, <<i>>, << >>, TRUE)>>
                           \o IF viaJson
                              THEN <<Call("get_json_config", 182, <<i>>, << >>, TRUE)>>
                              ELSE << >>
            IN  /\ log' = log \o calls
                /\ IF viaJson /\ js.rc # 0
                   THEN Exit(1) /\ UNCHANGED <<modules, i>>
                   ELSE IF FlashIdMismatch(cf[1], cf[2])
                        THEN /\ Exit(1)
                             /\ modules' = IF viaJson
                                           THEN [modules EXCEPT ![i].can_dlc = js.dlc]
                                           ELSE modules
                             /\ UNCHANGED i
                        ELSE /\ modules' =
                                  [modules EXCEPT
                                     ![i].can_dlc = IF viaJson THEN js.dlc ELSE @,
                                     ![i].data7 = cf[1]]
                             /\ i' = i + 1
                             /\ pc' = IF i + 1 < MAX_MODULES THEN "list" ELSE "query"
                             /\ UNCHANGED exitcode
       ELSE /\ i' = i + 1
            /\ pc' = IF i + 1 < MAX_MODULES THEN "list" ELSE "query"
            /\ UNCHANGED <<modules, log, exitcode>>
    /\ UNCHANGED <<envvars, optvars, ifr_qlen, entries, hw_type, flashvars, pairvars>>

\* a variant that goes on to flash in query mode
JustQueryIgnored(q) == FALSE

\* line 210
JustQuery(q) == q

\* lines 210-213
QueryExit ==
    /\ pc = "query"
    /\ IF JustQuery(query) THEN Exit(0) ELSE pc' = "select" /\ UNCHANGED exitcode
    /\ UNCHANGED <<envvars, optvars, ifr_qlen, modules, entries, i, hw_type, flashvars,
                   log, pairvars>>

\* a variant that takes slot 0 without looking at the registry
FirstModuleIsSlotZero == CHOOSE s \in Slots : \A t \in Slots : s <= t

\* the first slot with a module (lines 218-223)
FirstModule == CHOOSE s \in Slots :
    modules[s].can_id # 0 /\ \A t \in Slots : modules[t].can_id # 0 => s <= t

\* lines 215-229
SelectModule ==
    /\ pc = "select"
    /\ \E typed \in ScanfInputs :
        module_id' = IF module_id = NO_MODULE_ID
                     THEN IF entries = 1 THEN FirstModule ELSE MaskModuleId(typed)
                     ELSE module_id
    /\ pc' = "check"
    /\ UNCHANGED <<envvars, exitcode, infile, query, do_reset, dry_run, ifr_qlen, modules,
                   entries, i, hw_type, flashvars, log, pairvars>>

\* check_ch_name(infile, hw_type): non-zero when a required section is missing
check_ch_name(hasSection, hw) == IF NeedsChName(hw) /\ ~hasSection THEN 1 ELSE 0

\* a variant that takes every slot for a discovered module
SlotNeverEmpty(m) == FALSE

\* line 231
SlotEmpty(m) == m.can_id = 0

\* what a read of modules[] outside the registry may yield
JunkModules == [can_id : {0, 1}, can_dlc : {NO_DATA_LEN, DATA_LEN8}, data7 : {1, 2}]

\* modules[id] as main() reads it: the entry of the slot, or whatever lies
\* in memory before or behind the registry
ModuleAt(id) == IF id \in Slots THEN {modules[id]} ELSE JunkModules

\* lines 231-243
CheckModule ==
    /\ pc = "check"
    /\ \E m \in ModuleAt(module_id) :
        IF SlotEmpty(m)
        THEN Exit(1) /\ UNCHANGED hw_type
        ELSE /\ hw_type' = m.data7
             /\ IF check_ch_name(chfile, hw_type') # 0
                THEN Exit(1)
                ELSE pc' = "dlc" /\ UNCHANGED exitcode
    /\ UNCHANGED <<envvars, optvars, ifr_qlen, modules, entries, i, flashvars, log, pairvars>>

\* a variant that takes the profile's length whatever the module reported
LenAlwaysMissing(dlc) == TRUE

\* line 246
LenMissing(dlc) == dlc = NO_DATA_LEN

\* lines 245-253
DefaultTransferLen ==
    /\ pc = "dlc"
    /\ \E m \in ModuleAt(module_id) :
        modules' = IF LenMissing(m.can_dlc) /\ module_id \in Slots
                   THEN [modules EXCEPT ![module_id].can_dlc =
                            IF has_hw_flags(hw_type, "DATA_MODE8")
                            THEN DATA_LEN8 ELSE DATA_LEN6]
                   ELSE modules
    /\ pc' = "switch"
    /\ UNCHANGED <<envvars, optvars, exitcode, ifr_qlen, entries, i, hw_type, flashvars,
                   log, pairvars>>

----------------------------------------------------------------------------
(* main(): the flashing sequence *)

\* a variant that asks for the status before the switch
SwitchCallsStatusFirst(id) ==
    <<Call("get_status", 260, <<id>>, << >>, TRUE),
      Call("switch_to_bootloader", 258, <<id>>, << >>, TRUE)>>

\* lines 258-260: switch_to_bootloader(); sleep(1); get_status()
SwitchCalls(id) ==
    <<Call("switch_to_bootloader", 258, <<id>>, << >>, TRUE),
      Call("get_status", 260, <<id>>, << >>, TRUE)>>

\* lines 255-262
SwitchToBootloader ==
    /\ pc = "switch"
    /\ log' = IF has_hw_flags(hw_type, "SWITCH_TO_BOOTLOADER")
              THEN log \o SwitchCalls(module_id)
              ELSE log
    /\ pc' = "erase_init"
    /\ UNCHANGED <<envvars, optvars, exitcode, ifr_qlen, modules, entries, i, hw_type,
                   flashvars, pairvars>>

\* lines 264-271
EraseInit ==
    /\ pc = "erase_init"
    /\ entries' = get_num_flashblocks(hw_type)
    /\ IF entries' = 0
       THEN Exit(1) /\ UNCHANGED i
       ELSE pc' = "erase" /\ i' = 0 /\ UNCHANGED exitcode
    /\ UNCHANGED <<envvars, optvars, ifr_qlen, modules, hw_type, flashvars, log, pairvars>>

\* a variant that runs the loop once more
EraseLoopRunsOnceMore(idx, n) == idx <= n

\* line 272: the loop condition
EraseLoopRuns(idx, n) == idx < n

\* a variant that does not hand the option on
DryRunArgIgnored(dry) == FALSE

\* the dry_run argument of lines 273 and 319
DryRunArg(dry) == dry

\* a transport failure ends the process inside erase_flashblocks / write_block
Aborted(r) == r.fatal

\* lines 272-273: one round of the erase loop; the loop is left for line 275
EraseBlock ==
    /\ pc = "erase"
    /\ \E ok \in BOOLEAN :
        LET r == erase_flashblocks(DryRunArg(dry_run), ok)
        IN  /\ log' = Append(log, Call("erase_flashblocks", 273, <<i>>, << >>, r.tx))
            /\ txfail' = (r.tx /\ ~ok)
            /\ IF Aborted(r)
               THEN Exit(1) /\ UNCHANGED i
               ELSE /\ i' = i + 1
                    /\ pc' = IF EraseLoopRuns(i + 1, entries) THEN "erase" ELSE "write_init"
                    /\ UNCHANGED exitcode
    /\ UNCHANGED <<envvars, optvars, ifr_qlen, modules, entries, hw_type, foffset, feof,
                   buf, alternating_xor_flip, crc_start, floffset, trace, oob, pairvars>>

\* lines 275-279
WriteInit ==
    /\ pc = "write_init"
    /\ foffset' = 0
    /\ alternating_xor_flip' = has_hw_flags(hw_type, "FDATA_INVERT")
    /\ crc_start' = get_crc_startpos(hw_type)
    /\ floffset' = get_flash_offset(hw_type)
    /\ pc' = "write"
    /\ UNCHANGED <<envvars, optvars, exitcode, ifr_qlen, modules, entries, i, hw_type,
                   feof, buf, trace, oob, txfail, log, pairvars>>

\* a variant that writes every block read
BlockNotEmptyAlways(b) == TRUE

\* line 295: i != BLKSZ after the scan of lines 289-292
BlockNotEmpty(b) == ~IsEmptyBlock(b)

\* a variant that looks for the descriptor in a live run only
CrcArrayInBlockLive(cs, off) == ~dry_run /\ cs # 0 /\ cs >= off /\ cs < off + BLKSZ

\* a variant without the upper end of the block's range
CrcArrayNotBeforeBlock(cs, off) == cs # 0 /\ cs >= off

\* line 298
CrcArrayInBlock(cs, off) == cs # 0 /\ cs >= off /\ cs < off + BLKSZ

\* line 325
NextOffset(off) == off + BLKSZ

\* a variant that never sees the end of the file
NeverAtEndOfFile(eof) == FALSE

\* line 322: feof(infile) after the block has been handled
AtEndOfFile(eof) == eof

\* rounds of the write loop the model follows: one more than the images need
MaxRounds == MaxBlocks + 2

\* values a read behind buf may yield
JunkCells == {0, EMPTY}

\* lines 281-327: one round of the write loop
WriteBlock ==
    /\ pc = "write"
    /\ Len(trace) < MaxRounds
    /\ IF fseek(foffset) # 0
       THEN /\ pc' = "end_programming"
            /\ UNCHANGED <<exitcode, flashvars, log>>
       ELSE \E ok \in BOOLEAN, junk \in JunkCells, m \in ModuleAt(module_id) :
            LET rd == fread_block(image, foffset)
                full == BlockNotEmpty(rd.buf)
                patch == full /\ CrcArrayInBlock(crc_start, foffset)
                p == IF patch
                     THEN PatchCrcArray(rd.buf, rd.eof, crc_start - foffset, crc_start,
                                        image, junk)
                     ELSE [buf |-> rd.buf, eof |-> rd.eof, out |-> << >>, oob |-> FALSE]
                w == write_block(DryRunArg(dry_run), ok)
            IN  /\ buf' = p.buf
                /\ feof' = p.eof
                /\ oob' = (oob \/ p.oob)
                /\ txfail' = (full /\ w.tx /\ ~ok)
                /\ trace' = Append(trace, [off |-> foffset, empty |-> ~full,
                                           patch |-> patch, out |-> p.out])
                /\ log' = IF full
                          THEN Append(log,
                                 Call("write_block", 319,
                                      <<module_id, foffset + floffset, BLKSZ,
                                        m.can_dlc>>,
                                      [j \in 1 .. BLKSZ |-> p.buf[j]], w.tx))
                          ELSE log
                /\ IF full /\ Aborted(w)
                   THEN Exit(1) /\ UNCHANGED foffset
                   ELSE IF AtEndOfFile(p.eof)
                        THEN pc' = "end_programming" /\ UNCHANGED <<exitcode, foffset>>
                        ELSE /\ foffset' = NextOffset(foffset)
                             /\ pc' = "write"
                             /\ UNCHANGED exitcode
                /\ UNCHANGED <<alternating_xor_flip, crc_start, floffset>>
    /\ UNCHANGED <<envvars, optvars, ifr_qlen, modules, entries, i, hw_type, pairvars>>

\* lines 332-334: end_programming(); sleep(1); get_status()
EndCalls(id) ==
    <<Call("end_programming", 332, <<id>>, << >>, TRUE),
      Call("get_status", 334, <<id>>, << >>, TRUE)>>

\* lines 329-336
EndProgramming ==
    /\ pc = "end_programming"
    /\ log' = IF has_hw_flags(hw_type, "END_PROGRAMMING")
              THEN log \o EndCalls(module_id)
              ELSE log
    /\ pc' = "reset"
    /\ UNCHANGED <<envvars, optvars, exitcode, ifr_qlen, modules, entries, i, hw_type,
                   flashvars, pairvars>>

\* line 338
ResetDue(hw, byOption) == has_hw_flags(hw, "RESET_AFTER_FLASH") \/ byOption

\* a variant that asks for the status after every reset
StatusAfterEveryReset(hw, byOption) == TRUE

\* line 350
StatusAfterReset(hw, byOption) == has_hw_flags(hw, "RESET_AFTER_FLASH")

\* lines 338-354
ResetModule ==
    /\ pc = "reset"
    /\ log' = IF ResetDue(hw_type, do_reset)
              THEN log \o <<Call("reset_module", 341, <<module_id>>, << >>, TRUE)>>
                       \o IF StatusAfterReset(hw_type, do_reset)
                          THEN <<Call("get_status", 351, <<module_id>>, << >>, TRUE)>>
                          ELSE << >>
              ELSE log
    /\ pc' = "done"
    /\ UNCHANGED <<envvars, optvars, exitcode, ifr_qlen, modules, entries, i, hw_type,
                   flashvars, pairvars>>

\* lines 356-361
Finish ==
    /\ pc = "done"
    /\ Exit(0)
    /\ UNCHANGED <<envvars, optvars, ifr_qlen, modules, entries, i, hw_type, flashvars,
                   log, pairvars>>

----------------------------------------------------------------------------
(* A second session on the same image, module and replies, with the dry    *)
(* run option flipped: it starts where the first one started to flash.     *)

Rerun ==
    /\ pc = "exit" /\ exitcode = 0 /\ pass = 1 /\ trace # << >>
    /\ pass' = 2
    /\ prev' = <<[trace |-> trace, dry |-> dry_run, log |-> log]>>
    /\ dry_run' = ~dry_run
    /\ pc' = "switch"
    /\ exitcode' = -1
    /\ log' = SelectSeq(log, LAMBDA c : c.at < 255)
    /\ trace' = << >>
    /\ foffset' = 0 /\ feof' = FALSE /\ oob' = FALSE
    /\ UNCHANGED <<envvars, infile, query, do_reset, module_id, ifr_qlen, modules,
                   entries, i, hw_type, buf, alternating_xor_flip, crc_start, floffset,
                   txfail>>

Next ==
    \/ ParseArgs \/ CheckUsage \/ OpenTransport
    \/ QueryModules \/ ListModule \/ QueryExit
    \/ SelectModule \/ CheckModule \/ DefaultTransferLen
    \/ SwitchToBootloader \/ EraseInit \/ EraseBlock
    \/ WriteInit \/ WriteBlock
    \/ EndProgramming \/ ResetModule \/ Finish

Spec == Init /\ [][Next]_vars

\* flashing sessions with every value of option -i
SpecIds == InitIds /\ [][Next]_vars

\* sessions over every generated image, one module on the bus
SpecFlash == InitFlash /\ [][Next]_vars

\* sessions followed to their end: main() is a sequential program that
\* takes its next step as long as it has one
SpecFair == InitLast /\ [][Next]_vars /\ WF_vars(Next)

\* the same, each session followed by its dry/live counterpart
SpecPair == InitFlash /\ [][Next \/ Rerun]_vars

----------------------------------------------------------------------------
(* Properties *)

\* the calls of the flashing sequence (lines 255-354), without discovery
FlashLog == SelectSeq(log, LAMBDA c : c.at >= 255)

Cmds(l) == [k \in 1 .. Len(l) |-> l[k].cmd]

Repeat(x, n) == [k \in 1 .. n |-> x]

Prefixes(sq) == { SubSeq(sq, 1, n) : n \in 0 .. Len(sq) }

IsPrefix(a, b) == Len(a) <= Len(b) /\ a = SubSeq(b, 1, Len(a))

\* main() has reached the flashing sequence behind the switch to the bootloader
Flashing ==
    \/ pc \in {"erase_init", "erase", "write_init", "write", "end_programming",
               "reset", "done"}
    \/ pc = "exit" /\ FlashLog # << >>

\* the session has flashed and left main() by line 361
Completed == pc = "exit" /\ exitcode = 0 /\ ~query /\ log # << >>

SwitchAndEnd(hw) ==
    has_hw_flags(hw, "SWITCH_TO_BOOTLOADER") /\ has_hw_flags(hw, "END_PROGRAMMING")

\* C1: with a profile that needs the bootloader switch and end-programming,
\* the commands of the flashing sequence are, in this order: the switch, a
\* status query, the erase commands, the write commands, end-programming, a
\* status query, the reset (and its status query).  No write is issued before
\* all erase commands, end-programming only once the write loop is left, and
\* a session that completes has issued end-programming and its status query.
C1_CommandOrder ==
    (Flashing /\ SwitchAndEnd(hw_type)) =>
        \E nE \in 0 .. Len(FlashLog), nW \in 0 .. Len(FlashLog),
           tail \in Prefixes(<<"end_programming", "get_status", "reset_module",
                               "get_status">>) :
            /\ Cmds(FlashLog) =
                   <<"switch_to_bootloader", "get_status">>
                   \o Repeat("erase_flashblocks", nE) \o Repeat("write_block", nW)
                   \o tail
            /\ (nW > 0 \/ tail # << >>) => nE = get_num_flashblocks(hw_type)
            /\ tail # << >> => pc \in {"reset", "done", "exit"}
            /\ pc \in {"reset", "done"} \/ Completed => Len(tail) >= 2

C1_Witness ==
    /\ Completed /\ hw_type = 1
    /\ Cmds(FlashLog) =
           <<"switch_to_bootloader", "get_status", "erase_flashblocks",
             "erase_flashblocks", "write_block", "write_block", "end_programming",
             "get_status", "reset_module", "get_status">>

\* C2: once the flashing sequence is through, a reset command has been
\* issued iff the profile has the reset-after-flash flag or option -r was
\* given; the reset is followed by a status query iff the profile has the
\* flag, and before that point no reset has been issued.
C2_ResetRule ==
    LET cmds == Cmds(FlashLog)
        n == Len(cmds)
        byProfile == has_hw_flags(hw_type, "RESET_AFTER_FLASH")
        resets == {k \in 1 .. n : cmds[k] = "reset_module"}
    IN  /\ (pc = "done" \/ Completed) =>
              /\ (resets # {}) <=> (byProfile \/ do_reset)
              /\ Cardinality(resets) <= 1
              /\ \A k \in resets :
                    IF byProfile
                    THEN k = n - 1 /\ FlashLog[n].cmd = "get_status" /\ FlashLog[n].at = 351
                    ELSE k = n
        /\ ~(pc = "done" \/ Completed) => resets = {}

C2_Witness ==
    /\ Completed /\ do_reset /\ ~has_hw_flags(hw_type, "RESET_AFTER_FLASH")
    /\ FlashLog[Len(FlashLog)].cmd = "reset_module"
    /\ \E k \in 1 .. Len(FlashLog) : FlashLog[k].cmd = "end_programming"

\* C3: no block handed to write_block consists of BLKSZ empty cells, and
\* the block of the image it was read from is not empty either.
C3_NoEmptyBlockWritten ==
    \A k \in 1 .. Len(log) :
        log[k].cmd = "write_block" =>
            /\ \E j \in 1 .. BLKSZ : log[k].data[j] # EMPTY
            /\ \E j \in 1 .. BLKSZ :
                  LET at == log[k].arg[2] - floffset + j
                  IN  at <= Len(image) /\ image[at] # EMPTY

C3_Witness ==
    /\ pc = "end_programming"
    /\ \E k \in 1 .. Len(trace) : trace[k].empty /\ trace[k].off + BLKSZ <= Len(image)
    /\ \E k \in 1 .. Len(log) : log[k].cmd = "write_block"

\* C5: the erase commands carry the block indices 0, 1, 2, ... in this
\* order, one each; there are never more than the profile's block count, and
\* all of them have been issued when the write phase starts, before any
\* write; a live run sends each of them.
C5_EraseAllBlocksOnce ==
    LET er == SelectSeq(FlashLog, LAMBDA c : c.cmd = "erase_flashblocks")
    IN  /\ \A k \in 1 .. Len(er) : er[k].arg = <<k - 1>> /\ (~dry_run => er[k].tx)
        /\ Len(er) <= get_num_flashblocks(hw_type)
        /\ (pc \in {"write_init", "write", "end_programming", "reset", "done"}
               \/ Completed
               \/ \E k \in 1 .. Len(log) : log[k].cmd = "write_block")
              => Len(er) = get_num_flashblocks(hw_type)
        /\ \A a, b \in 1 .. Len(log) :
              (log[a].cmd = "write_block" /\ log[b].cmd = "erase_flashblocks") => b < a

C5_Witness ==
    /\ pc = "write" /\ trace # << >> /\ hw_type = 2
    /\ Len(SelectSeq(FlashLog, LAMBDA c : c.cmd = "erase_flashblocks")) = 3


\* offsets of the writes, relative to the image
WrittenOffsets ==
    LET wr == SelectSeq(log, LAMBDA c : c.cmd = "write_block")
    IN  [k \in 1 .. Len(wr) |-> wr[k].arg[2] - floffset]

\* offsets of the blocks of the image that hold a programmed cell
NonEmptyOffsets(img) ==
    { b * BLKSZ : b \in { c \in 0 .. MaxBlocks :
        \E j \in (c * BLKSZ + 1) .. Min((c + 1) * BLKSZ, Len(img)) : img[j] # EMPTY } }

\* the write loop has been left by one of its two breaks
WriteLoopLeft == pc \in {"end_programming", "reset", "done"} \/ Completed

\* C4: the writes go to strictly increasing offsets, and when the write
\* loop is left every non-empty block of the image has been written, and
\* nothing else.
C4_EveryNonEmptyBlockOnce ==
    /\ \A a, b \in 1 .. Len(WrittenOffsets) :
          a < b => WrittenOffsets[a] < WrittenOffsets[b]
    /\ WriteLoopLeft =>
          { WrittenOffsets[k] : k \in 1 .. Len(WrittenOffsets) } = NonEmptyOffsets(image)

\* C6: the offsets visited are 0, BLKSZ, 2*BLKSZ, ...; no write goes to an
\* offset at or behind the end of the image; the loop is left at the block
\* that holds the end of the image, after at most one short read.
C6_OffsetsToEndOfImage ==
    /\ \A k \in 1 .. Len(trace) : trace[k].off = (k - 1) * BLKSZ
    /\ \A k \in 1 .. Len(WrittenOffsets) : WrittenOffsets[k] < Len(image)
    /\ WriteLoopLeft =>
          LET last == trace[Len(trace)].off
          IN  /\ last <= Len(image)
              /\ last + BLKSZ >= Len(image)
              /\ Cardinality({k \in 1 .. Len(trace) :
                                 trace[k].off + BLKSZ > Len(image)}) <= 1

\* C7 as stated: in a dry run no command of the session reaches the bus.
C7_DryRunSendsNothing ==
    dry_run => \A k \in 1 .. Len(log) : ~log[k].tx

\* C7: in a dry run no erase and no write command reaches the bus; the
\* module query, the status and configuration queries, the switch to the
\* bootloader, end-programming and the reset are sent as in a live run.
C7_DryRunSendsNoEraseNoWrite ==
    dry_run =>
        \A k \in 1 .. Len(log) :
            log[k].tx <=> log[k].cmd \notin {"erase_flashblocks", "write_block"}

C7_Witness ==
    /\ Completed /\ dry_run
    /\ \E k \in 1 .. Len(log) : log[k].cmd = "erase_flashblocks" /\ ~log[k].tx
    /\ \E k \in 1 .. Len(log) : log[k].cmd = "write_block" /\ ~log[k].tx
    /\ \E k \in 1 .. Len(log) : log[k].cmd = "switch_to_bootloader" /\ log[k].tx

Untransmitted(c) == [c EXCEPT !.tx = FALSE]

\* C8: the second session, run with the dry run option flipped on the
\* same image, module and replies, visits the same offsets with the same
\* empty/non-empty decisions and the same checksum patch output, and calls
\* the same commands with the same arguments and block contents; the two
\* differ only in whether erase_flashblocks and write_block transmit.
C8_DryAndLiveAlike ==
    pass = 2 =>
        LET first == prev[1]
        IN  /\ dry_run # first.dry
            /\ IsPrefix(trace, first.trace)
            /\ Len(log) <= Len(first.log)
            /\ \A k \in 1 .. Len(log) :
                  /\ Untransmitted(log[k]) = Untransmitted(first.log[k])
                  /\ log[k].tx # first.log[k].tx =>
                        log[k].cmd \in {"erase_flashblocks", "write_block"}
            /\ Completed => trace = first.trace /\ Len(log) = Len(first.log)

C8_Witness ==
    /\ pass = 2 /\ Completed
    /\ \E k \in 1 .. Len(trace) :
          trace[k].patch /\ Len(trace[k].out) >= 2 /\ trace[k].out[2][1] = "crc"
    /\ \E k \in 1 .. Len(trace) : trace[k].empty
    /\ Len(WrittenOffsets) >= 2

\* the pairing a module resolves to is not one of the matrix
BadPairing(kind) == kind \in {"hw1bad", "jsonbad"}

\* C9: with a module on the bus whose hardware and flash type do not pair,
\* main() never gets behind the module list, issues no command of the
\* flashing sequence, and a session that has queried the bus ends with
\* exit status 1.
C9_MismatchStopsSession ==
    (\E s \in Slots : BadPairing(bus[s])) =>
        /\ pc \in {"getopt", "usage", "socket", "query_modules", "list", "exit"}
        /\ FlashLog = << >>
        /\ (pc = "exit" /\ log # << >>) => exitcode = 1

C9_Witness ==
    /\ pc = "exit" /\ exitcode = 1
    /\ bus[0] = "hw1" /\ bus[1] = "hw1bad"
    /\ modules[0].data7 = 1
    /\ Len(log) = 3 /\ log[3].cmd = "get_status" /\ log[3].arg = <<1>>

\* C10: in query mode no command of the flashing sequence is issued and
\* main() never gets behind line 213; once the module list is through the
\* session ends with exit status 0.  Query mode together with an image file
\* ends the session before the socket is opened, with nothing sent.
C10_QueryOnly ==
    /\ query =>
          /\ FlashLog = << >>
          /\ pc \in {"usage", "socket", "query_modules", "list", "query", "exit"}
          /\ (pc = "exit" /\ log # << >> /\ i = MAX_MODULES) => exitcode = 0
    /\ (argv.q /\ argv.f = "ok") =>
          /\ pc \in {"getopt", "usage", "exit"}
          /\ log = << >>

C10_Witness ==
    /\ pc = "exit" /\ exitcode = 0 /\ query /\ i = MAX_MODULES
    /\ Len(log) = 1 + 2 * MAX_MODULES


FlashCmds ==
    {"switch_to_bootloader", "erase_flashblocks", "write_block", "end_programming",
     "reset_module"}

\* C11: once an erase or write command has failed on the bus the process
\* has ended with exit status 1; the failed command is the last call of the
\* session, and neither end-programming nor a reset has been issued.
C11_FailureAborts ==
    txfail =>
        /\ pc = "exit" /\ exitcode = 1
        /\ log[Len(log)].cmd \in {"erase_flashblocks", "write_block"}
        /\ log[Len(log)].tx
        /\ \A k \in 1 .. Len(log) : log[k].cmd \notin {"end_programming", "reset_module"}

C11_Witness ==
    /\ txfail /\ pc = "exit"
    /\ log[Len(log)].cmd = "write_block"
    /\ Len(trace) = 2
    /\ \E k \in 1 .. Len(log) : log[k].cmd = "erase_flashblocks"

C11_EraseWitness ==
    txfail /\ pc = "exit" /\ log[Len(log)].cmd = "erase_flashblocks" /\ i = 1


\* slots of the registry that hold a discovered module
Found == {s \in Slots : modules[s].can_id # 0}

\* no -i option was given and main() is past the selection of lines 215-229
SelectedByMain == argv.i = NO_MODULE_ID /\ module_id # NO_MODULE_ID

C12_SingleWitness ==
    SelectedByMain /\ Found = {1} /\ module_id = 1 /\ Completed


\* the cell of the image file at a 0-based position; behind the end of the
\* file the buffer keeps the EMPTY fill of line 286
FileCell(at) == IF at < Len(image) THEN image[at + 1] ELSE EMPTY

\* the block of the image file at an offset, as read at lines 286-287
FileBlock(off) == [j \in 1 .. BLKSZ |-> FileCell(off + j - 1)]

\* the write_block calls for an offset of the image, as indices of the log
WritesAt(off) ==
    {n \in 1 .. Len(log) : log[n].cmd = "write_block" /\ log[n].arg[2] = off + floffset}

\* the block written for an offset of the image
Written(off) == log[CHOOSE n \in WritesAt(off) : TRUE].data

\* the descriptor the image holds at the scan offset: its identification
\* string is the expected one, and its mode
FileIdentOk ==
    \A k \in 1 .. Len(CRC_IDENT_STRING) :
        FileCell(crc_start + OFF_STR + k - 1) = CRC_IDENT_STRING[k]

FileMode == FileCell(crc_start + OFF_MODE)

\* C13: a block handed to write_block differs from the block of the image
\* file only if it holds the descriptor, the identification string matches
\* and the mode is 1, 3 or 4.  With another string or mode no checksum is
\* computed, the block is written as read, the process does not end for
\* that reason, and the loop goes on to the next block of the image.
C13_PatchOnlySupported ==
    /\ \A k \in 1 .. Len(trace) :
          LET t == trace[k]
              acted == FileIdentOk /\ FileMode \in {1, 3, 4}
          IN  ~t.empty =>
                /\ Cardinality(WritesAt(t.off)) = 1
                /\ Written(t.off) # FileBlock(t.off) => (t.patch /\ acted)
                /\ (t.patch /\ ~acted) =>
                      /\ Written(t.off) = FileBlock(t.off)
                      /\ \A n \in 1 .. Len(t.out) : t.out[n][1] # "crc"
                      /\ t.out[Len(t.out)] =
                            IF FileIdentOk THEN <<"unsupported", FileMode>>
                            ELSE <<"noident">>
                      /\ (WriteLoopLeft /\ t.off + BLKSZ < Len(image)) => Len(trace) > k
    /\ (pc = "exit" /\ exitcode # 0 /\ trace # << >>) => txfail

C13_Witness ==
    /\ Completed /\ Len(trace) = 3
    /\ trace[2].patch /\ trace[2].out[Len(trace[2].out)] = <<"unsupported", 2>>
    /\ WritesAt(trace[2].off) # {} /\ WritesAt(trace[3].off) # {}

C13_NoIdentWitness ==
    /\ Completed /\ Len(trace) >= 2
    /\ \E k \in 1 .. Len(trace) - 1 :
          trace[k].patch /\ trace[k].out = << <<"noident">> >> /\ ~trace[k + 1].empty

C13_PatchedWitness ==
    \E k \in 1 .. Len(trace) :
        /\ trace[k].patch /\ FileMode = 4
        /\ Written(trace[k].off) # FileBlock(trace[k].off)


\* C14: a call that puts a frame on the bus or waits for one is made only
\* after the queue length of the interface has been read and found to be at
\* least PCF_MIN_TX_QUEUE; the length is read once, and with a shorter
\* queue the process has ended with exit status 1 and no call was made.
C14_QueueChecked ==
    /\ log # << >> => ifr_qlen >= PCF_MIN_TX_QUEUE
    /\ pc \in {"query_modules", "list", "query", "select", "check", "dlc", "switch"}
          => ifr_qlen >= PCF_MIN_TX_QUEUE
    /\ (ifr_qlen # 0 /\ ifr_qlen < PCF_MIN_TX_QUEUE) =>
          pc = "exit" /\ exitcode = 1 /\ log = << >>

\* C14, as a step: once read, the queue length never changes
C14_ReadOnce == [][ifr_qlen # 0 => ifr_qlen' = ifr_qlen]_vars

C14_Witness ==
    /\ ifr_qlen = PCF_MIN_TX_QUEUE - 1 /\ pc = "exit" /\ exitcode = 1 /\ log = << >>

C14_ProceedWitness ==
    ifr_qlen = PCF_MIN_TX_QUEUE /\ Completed


\* rounds of the write loop that have looked for the descriptor
Patched == {k \in 1 .. Len(trace) : trace[k].patch}

\* the checksums computed for a block are in the block that was written
PatchedBeforeWrite(t) ==
    \A n \in 1 .. Len(t.out) :
        t.out[n][1] = "crc" =>
            LET idx == crc_start - t.off + OFF_BLOCK + ENTRY_CELLS * t.out[n][2] + 2
            IN  idx < BLKSZ => Written(t.off)[idx + 1] = t.out[n][5]

\* C15 as stated: a non-empty block is looked at for the descriptor iff
\* its range [foffset, foffset + BLKSZ) contains the profile's scan offset.
C15_PatchIffOffsetInBlock ==
    /\ \A k \in 1 .. Len(trace) :
          ~trace[k].empty =>
              (trace[k].patch <=>
                  (crc_start >= trace[k].off /\ crc_start < trace[k].off + BLKSZ))
    /\ Cardinality(Patched) <= 1

\* C15: a non-empty block is looked at for the descriptor iff the
\* profile's scan offset is not zero and lies in [foffset, foffset + BLKSZ);
\* an empty block never is.  This happens for at most one block of a
\* session, and the checksums computed are in the block handed to
\* write_block; the image file keeps its content.
C15_PatchIffNonZeroOffsetInBlock ==
    /\ \A k \in 1 .. Len(trace) :
          LET t == trace[k]
          IN  /\ t.patch <=>
                    /\ ~t.empty
                    /\ get_crc_startpos(hw_type) # 0
                    /\ get_crc_startpos(hw_type) >= t.off
                    /\ get_crc_startpos(hw_type) < t.off + BLKSZ
              /\ t.patch => (WritesAt(t.off) # {} /\ PatchedBeforeWrite(t))
    /\ Cardinality(Patched) <= 1

\* C15, as a step: no step changes the image file
C15_ImageKept == [][image' = image]_vars

C15_Witness ==
    /\ Completed /\ Len(trace) = 3 /\ Patched = {2}
    /\ Len(trace[2].out) = 2 /\ trace[2].out[2][1] = "crc"
    /\ Written(trace[2].off) # FileBlock(trace[2].off)
    /\ ~trace[1].empty /\ ~trace[3].empty

C15_ZeroOffsetWitness ==
    /\ Completed /\ get_crc_startpos(hw_type) = 0
    /\ ~trace[1].empty /\ Patched = {}


\* the transfer length a module reports in its extended configuration;
\* NO_DATA_LEN for a module that has none or reports none
ReportedLen(kind) ==
    IF kind # "none" /\ JSON_TYPE \in {StatusReply(kind)[1], StatusReply(kind)[2]}
    THEN JsonReply(kind).dlc
    ELSE NO_DATA_LEN

\* the transfer length of the profile
ProfileLen(hw) == IF "DATA_MODE8" \in HwFlags(hw) THEN DATA_LEN8 ELSE DATA_LEN6

\* C16: from the switch to the bootloader on, the transfer length of the
\* selected module is the one the module reported, or the profile's (8 with
\* 8-byte transfers, else 6) if it reported none; the other registry entries
\* keep what was reported; every write_block call gets that same length.
C16_TransferLen ==
    Flashing =>
        LET len == IF ReportedLen(bus[module_id]) # NO_DATA_LEN
                   THEN ReportedLen(bus[module_id])
                   ELSE ProfileLen(hw_type)
        IN  /\ modules[module_id].can_dlc = len
            /\ \A s \in Slots \ {module_id} : modules[s].can_dlc = ReportedLen(bus[s])
            /\ \A k \in 1 .. Len(log) : log[k].cmd = "write_block" => log[k].arg[4] = len

C16_Witness ==
    /\ Completed /\ bus[module_id] = "json8" /\ ProfileLen(hw_type) = DATA_LEN6
    /\ Cardinality({k \in 1 .. Len(log) :
                       log[k].cmd = "write_block" /\ log[k].arg[4] = DATA_LEN8}) = 2

C16_DefaultWitness ==
    /\ Completed /\ bus[module_id] = "hw2"
    /\ \E k \in 1 .. Len(log) : log[k].cmd = "write_block" /\ log[k].arg[4] = DATA_LEN8

C16_DefaultSixWitness ==
    /\ Completed /\ bus[module_id] = "json"
    /\ \E k \in 1 .. Len(log) : log[k].cmd = "write_block" /\ log[k].arg[4] = DATA_LEN6


\* main() is past the checks of lines 231-243
PastChecks == pc \in {"dlc", "switch"} \/ Flashing

\* the image lacks the channel section the hardware type of a slot needs
SectionMissing(s) == NeedsChName(modules[s].data7) /\ ~chfile

\* C17: main() gets past the checks of the selected slot only with a
\* discovered module in that slot and, where the hardware type needs one,
\* a channel section in the image; a flashing session that ended with an
\* empty slot selected or the section missing ended with exit status 1, and
\* in both cases no command from the switch to the bootloader on was issued.
C17_ChecksBeforeFlashing ==
    /\ PastChecks =>
          /\ module_id \in Found
          /\ hw_type = modules[module_id].data7
          /\ ~SectionMissing(module_id)
    /\ (pc = "exit" /\ log # << >> /\ ~query /\ module_id \in Slots
           /\ (module_id \notin Found \/ SectionMissing(module_id)))
          => (exitcode = 1 /\ FlashLog = << >>)

C17_Witness ==
    /\ pc = "exit" /\ exitcode = 1 /\ ~query
    /\ argv.i = 1 /\ Found = {0} /\ module_id = 1
    /\ log[Len(log)].cmd = "get_status" /\ FlashLog = << >>

C17_SectionWitness ==
    /\ pc = "exit" /\ exitcode = 1 /\ ~query
    /\ module_id \in Found /\ hw_type = 3 /\ SectionMissing(module_id)
    /\ FlashLog = << >>

C17_PassWitness ==
    Completed /\ hw_type = 3 /\ chfile /\ module_id = 1


\* C18: whenever main() is about to index the registry with module_id
\* (the lookup of line 231, the default of lines 246-250, the transfer
\* length of line 319), module_id is the index of a slot.
C18_ModuleIdInRegistry ==
    pc \in {"check", "dlc", "write"} => module_id \in Slots

\* C18 for the ids main() chooses itself: with no -i option the id comes
\* from the scan of the registry or from the masked number of the prompt
C18_ChosenIdInRegistry ==
    (argv.i = NO_MODULE_ID /\ pc \in {"check", "dlc", "write"}) => module_id \in Slots


\* C19: no round of the write loop reads or writes a cell behind the
\* BLKSZ + 2 cells of buf while it handles the descriptor, whatever the scan
\* offset and the entry count stored in the image.
C19_PatchInsideBuf == ~oob


\* the write loop has been left by the break of line 284 or of line 323
\* and main() has gone through end-programming and reset to its return
LoopLeftAndDone == Completed /\ ~txfail /\ trace # << >>

\* C20: a session that has entered the write loop leaves it: unless a
\* transfer fails, which ends the process, the loop is left by one of its
\* breaks after at most one round more than the image has blocks, and
\* main() goes on through end-programming and reset to its return.
C20_WritePhaseTerminates ==
    (pc = "write") ~> (pc = "exit" /\ (txfail \/ LoopLeftAndDone))

\* C20, the measure: every round moves on by one block, and the rounds
\* are at most one more than the blocks of the image
C20_RoundsBounded ==
    /\ Len(trace) <= (Len(image) + BLKSZ - 1) \div BLKSZ + 1
    /\ (pc = "write" /\ trace # << >>) => foffset = trace[Len(trace)].off + BLKSZ

\* the descriptor in the short last block: its checksum is computed from
\* the stream, the end-of-file indicator is gone and one more round follows
C20_Witness ==
    /\ LoopLeftAndDone
    /\ Len(image) % BLKSZ # 0
    /\ \E k \in Patched : trace[k].off + BLKSZ > Len(image) /\ Len(trace[k].out) >= 2
    /\ trace[Len(trace)].off >= Len(image)

C20_EmptyImageWitness ==
    LoopLeftAndDone /\ image = << >> /\ Len(trace) = 1

C20_MultipleWitness ==
    LoopLeftAndDone /\ Len(image) = MaxBlocks * BLKSZ /\ Len(trace) = MaxBlocks + 1

====
